---- MODULE Spec2Model ----
(***************************************************************************)
(* Email Automation Agent: the processing cycle of EmailAutomationAgent    *)
(* (agent.py) over the mailbox processors (email_processors.py), the       *)
(* assistant (email_assistant.py) and the interaction loggers               *)
(* (logging_handlers.py).                                                   *)
(*                                                                          *)
(* Text is a sequence of one-character strings, so that lower(), the        *)
(* substring test `in`, re.match and slicing are computed as Python         *)
(* computes them.  None is the empty tuple <<>> and a present value v is    *)
(* the one-element tuple <<v>>.                                             *)
(***************************************************************************)
EXTENDS Integers, Sequences, FiniteSets, TLC

-----------------------------------------------------------------------------
(* Bounds of the model *)

\* number of cycles the loop of run() is followed for
MaxCycles == 3

-----------------------------------------------------------------------------
(* Text *)

UpperLetters ==
  <<"A", "B", "C", "D", "E", "F", "G", "H", "I", "J", "K", "L", "M",
    "N", "O", "P", "Q", "R", "S", "T", "U", "V", "W", "X", "Y", "Z">>

LowerLetters ==
  <<"a", "b", "c", "d", "e", "f", "g", "h", "i", "j", "k", "l", "m",
    "n", "o", "p", "q", "r", "s", "t", "u", "v", "w", "x", "y", "z">>

LowerChar(c) ==
  IF \E i \in DOMAIN UpperLetters : UpperLetters[i] = c
  THEN LowerLetters[CHOOSE i \in DOMAIN UpperLetters : UpperLetters[i] = c]
  ELSE c

\* a lower() that leaves the text as it is
Lower_identity(s) == s

\* str.lower()
Lower(s) == [i \in 1..Len(s) |-> LowerChar(s[i])]

\* sub in s
Contains(s, sub) ==
  \E i \in 0..(Len(s) - Len(sub)) : SubSeq(s, i + 1, i + Len(sub)) = sub

\* s.startswith(prefix), the anchored match of re.match
StartsWith(s, prefix) ==
  Len(s) >= Len(prefix) /\ SubSeq(s, 1, Len(prefix)) = prefix

\* a text of n characters c
Rep(c, n) == [i \in 1..n |-> c]

-----------------------------------------------------------------------------
(* Configuration: config["Email"]["email_address"] *)

email_address == <<"m", "e", "@", "c", "o", ".", "c", "o", "m">>

-----------------------------------------------------------------------------
(* EmailProcessor.should_process_email *)

NoReplyMarks ==
  { <<"n", "o", "-", "r", "e", "p", "l", "y">>,
    <<"n", "o", "r", "e", "p", "l", "y">> }

\* a prefix test that knows "re:" only
ReplyPrefixes_re == { <<"r", "e", ":">> }

ReplyPrefixes == { <<"r", "e", ":">>, <<"f", "w", "d", ":">> }

\* opt-out keywords without the short "no-auto"
OptOutMarks_long ==
  { <<"n", "o", "-", "a", "u", "t", "o", "-", "r", "e", "p", "l", "y">>,
    <<"h", "u", "m", "a", "n", "-", "o", "n", "l", "y">> }

OptOutMarks ==
  { <<"n", "o", "-", "a", "u", "t", "o", "-", "r", "e", "p", "l", "y">>,
    <<"n", "o", "-", "a", "u", "t", "o">>,
    <<"h", "u", "m", "a", "n", "-", "o", "n", "l", "y">> }

\* a test for the presence of list_id alone
Truthy_present(opt) == opt # <<>>

\* truth value of email_data.get("list_id"): neither None nor ""
Truthy(opt) == opt # <<>> /\ opt[1] # <<>>

should_process_email(ed) ==
  IF \E k \in NoReplyMarks : Contains(Lower(ed.sender), k) THEN FALSE
  ELSE IF /\ \E p \in ReplyPrefixes : StartsWith(Lower(ed.subject), p)
          /\ Contains(ed.sender, email_address) THEN FALSE
  ELSE IF Truthy(ed.list_id) THEN FALSE
  ELSE IF \E k \in OptOutMarks : Contains(Lower(ed.subject), k) THEN FALSE
  ELSE TRUE

-----------------------------------------------------------------------------
(* Program constants and fixed texts *)

\* the snippet length of log_interaction: body[:200], reply_text[:200]
SnippetLen == 200

Dots == <<".", ".", ".">>

\* a reply subject without the prefix
RePrefix_none == <<>>

\* "Re: " of send_reply
RePrefix == <<"R", "e", ":", " ">>

\* the text generate_reply returns when the model call raises
FallbackReply ==
  <<"T", "h", "a", "n", "k", " ", "y", "o", "u", " ", "f", "o",
    "r", " ", "y", "o", "u", "r", " ", "e", "m", "a", "i", "l",
    ".", " ", "I", "'", "m", " ", "e", "x", "p", "e", "r", "i",
    "e", "n", "c", "i", "n", "g", " ", "t", "e", "c", "h", "n",
    "i", "c", "a", "l", " ", "d", "i", "f", "f", "i", "c", "u",
    "l", "t", "i", "e", "s", " ", "p", "r", "o", "c", "e", "s",
    "s", "i", "n", "g", " ", "y", "o", "u", "r", " ", "r", "e",
    "q", "u", "e", "s", "t", " ", "a", "t", " ", "t", "h", "e",
    " ", "m", "o", "m", "e", "n", "t", ".", " ", "A", " ", "t",
    "e", "a", "m", " ", "m", "e", "m", "b", "e", "r", " ", "w",
    "i", "l", "l", " ", "r", "e", "v", "i", "e", "w", " ", "y",
    "o", "u", "r", " ", "m", "e", "s", "s", "a", "g", "e", " ",
    "a", "n", "d", " ", "r", "e", "s", "p", "o", "n", "d", " ",
    "a", "s", " ", "s", "o", "o", "n", " ", "a", "s", " ", "p",
    "o", "s", "s", "i", "b", "l", "e", ".">>

\* "Interaction regarding: " of generate_summary's except branch
SummaryPrefix ==
  <<"I", "n", "t", "e", "r", "a", "c", "t", "i", "o", "n", " ",
    "r", "e", "g", "a", "r", "d", "i", "n", "g", ":", " ">>

-----------------------------------------------------------------------------
(* The environment: messages on the provider and texts the language model  *)
(* returns                                                                  *)

Msgs == {"a", "b"}

\* the messages of the agent's own address: "c" is a mail the owner sent to
\* the own inbox, "r" is the agent's reply to it, delivered to the own inbox
LoopMsgs == {"c", "r"}

OwnMail ==
  [from_name |-> <<"M", "e">>,
   from_addr |-> email_address,
   subject |-> <<"H", "e", "l", "l", "o">>,
   list_id |-> <<>>,
   body |-> <<"h", "i">>,
   date |-> <<"W", "e", "d">>,
   gmail_id |-> 13, thread |-> 23]

\* the reply send_reply builds for OwnMail when generate_reply fell back:
\* From the own address, Subject "Re: " + subject, the reply text as body
OwnReply ==
  [from_name |-> <<>>,
   from_addr |-> email_address,
   subject |-> RePrefix \o OwnMail.subject,
   list_id |-> <<>>,
   body |-> FallbackReply,
   date |-> <<"T", "h", "u">>,
   gmail_id |-> 14, thread |-> 23]

\* The message as the provider holds it.  gmail_id and thread are the Gmail
\* API's message id and threadId.
RawMessage(m) ==
  IF m = "c" THEN OwnMail
  ELSE IF m = "r" THEN OwnReply
  ELSE IF m = "a"
  THEN [from_name |-> <<"B", "o", "s", "s">>,
        from_addr |-> <<"b", "o", "s", "s", "@", "c", "o", ".", "c", "o", "m">>,
        subject |-> <<"Q", "u", "e", "s", "t", "i", "o", "n">>,
        list_id |-> <<>>,
        body |-> Rep("w", SnippetLen + 1),
        date |-> <<"M", "o", "n">>,
        gmail_id |-> 11, thread |-> 21]
  ELSE [from_name |-> <<>>,
        from_addr |-> <<"n", "e", "w", "s", "@", "c", "o", ".", "c", "o", "m">>,
        subject |-> <<"W", "e", "e", "k", "l", "y", " ", "D", "i", "g", "e", "s", "t">>,
        list_id |-> << <<"n", "e", "w", "s", ".", "c", "o", ".", "c", "o", "m">> >>,
        body |-> <<"n", "e", "w", "s">>,
        date |-> <<"T", "u", "e">>,
        gmail_id |-> 12, thread |-> 22]

\* the value of the From header: "Name <addr>", or the bare address
FromHeader(raw) ==
  IF raw.from_name = <<>> THEN raw.from_addr
  ELSE raw.from_name \o <<" ", "<">> \o raw.from_addr \o <<">">>

\* response.text of the model call for a reply; <<>> is the call raising
LlmReplyOutcomes ==
  { <<>>, << Rep("y", SnippetLen) >>, << Rep("z", SnippetLen + 1) >> }

\* response.text of the model call for a summary; <<>> is the call raising
LlmSummaryOutcomes == { <<>>, << <<"s", "u", "m">> >> }

FetchOutcomes == {"ok", "list_error", "get_error", "decode_error"}

SendOutcomes == {"ok", "raise"}

\* The mark-as-read request: Gmail's modify raises on failure; imaplib's store
\* raises on an aborted connection or BAD and returns a NO status it does not raise.
MarkOutcomes(type) ==
  IF type = "gmail" THEN {"ok", "raise"} ELSE {"ok", "no", "raise"}

WriteOutcomes == {"ok", "raise"}

-----------------------------------------------------------------------------
(* State *)

VARIABLES
  email_type,        \* config["Email"]["type"]: "gmail" or "imap"
  single_run,        \* the --single-run flag
  interval_seconds,  \* the --interval argument
  inbox,             \* provider: the messages of INBOX, in order of arrival
  unread,            \* provider: the messages carrying UNREAD / lacking \Seen
  expunged,          \* provider: the messages removed from INBOX
  outbox,            \* provider: the replies it accepted for delivery
  connected,         \* the IMAP/SMTP connections of ImapProcessor are open
  processed_emails,  \* EmailProcessor.processed_emails
  log,               \* the rows appended to the CSV file / sheet
  pc,                \* position in run() and process_single_email()
  cycle,             \* number of cycles started
  email_data,        \* local of process_single_email: <<>> or <<record>>
  reply_text,        \* local of process_single_email: <<>> or <<text>>
  summary,           \* local of process_single_email: <<>> or <<text>>
  result,            \* what the last run_once() returned: <<>> or <<bool>>
  unhandled,         \* run() logged "Unhandled error in main loop"
  calls,             \* history: collaborator calls of the current cycle
  outcome,           \* history: how the current cycle went
  seen,              \* history: the provider's latest unread message when this
                     \* cycle fetched, and what had happened to it before
  sent,              \* history: the send_reply call of this cycle
  log_ok,            \* history: what log_interaction returned in this cycle
  before,            \* history: the state the cycle started in
  sendOk,            \* history: ids for which send_reply returned True
  pending,           \* history: messages whose last send_reply returned False
  rejected,          \* history: messages should_process_email rejected
  disconnects,       \* history: number of calls of email_processor.disconnect()
  gen_failed,        \* history: the generator calls of this cycle whose
                     \* language-model call raised
  quiet,             \* history: what run_once returned for the cycles that
                     \* ended without an email to process and without an error
  verdict,           \* what should_process_email returned: <<>> or <<bool>>
  replied,           \* history: messages for which send_reply returned True
  rejectedIds        \* history: ids should_process_email rejected

confVars == <<email_type, single_run, interval_seconds>>
provVars == <<inbox, unread, expunged, outbox>>
agentVars == <<connected, processed_emails, log, pc, cycle, unhandled>>
localVars == <<email_data, reply_text, summary>>
cycleVars == <<email_data, reply_text, summary, result, calls, outcome, seen,
               sent, log_ok, before>>
histVars == <<sendOk, pending, rejected, replied, rejectedIds>>
auxVars == <<disconnects, gen_failed, quiet, verdict>>
vars ==
  <<email_type, single_run, interval_seconds, inbox, unread, expunged, outbox, connected,
    processed_emails, log, pc, cycle, email_data, reply_text, summary, result,
    unhandled, calls, outcome, seen, sent, log_ok, before, sendOk, pending,
    rejected, disconnects, gen_failed, quiet, verdict, replied, rejectedIds>>

CyclePcs == {"fetch", "generate", "send", "summary", "log"}

-----------------------------------------------------------------------------
(* The mailbox as the processor sees it *)

\* a listing that is not restricted to unread messages
UnreadPositions_all == 1..Len(inbox)

UnreadPositions == {i \in 1..Len(inbox) : inbox[i] \in unread}

\* Gmail lists newest first with maxResults=1; IMAP takes email_ids[-1]
TopPos == CHOOSE i \in UnreadPositions : \A j \in UnreadPositions : j <= i

\* The id the processor uses for the message at position i: the Gmail message
\* id, or the message sequence number SEARCH UNSEEN returns.
MsgId(i) ==
  IF email_type = "gmail" THEN RawMessage(inbox[i]).gmail_id ELSE i

\* the email_data dictionary built from the message at position i
EmailRecord(i) ==
  LET raw == RawMessage(inbox[i]) IN
  [id |-> MsgId(i),
   threadId |-> IF email_type = "gmail" THEN raw.thread ELSE MsgId(i),
   sender |-> IF email_type = "gmail" THEN FromHeader(raw) ELSE raw.from_addr,
   recipient |-> email_address,
   subject |-> raw.subject,
   body |-> raw.body,
   date |-> raw.date,
   list_id |-> raw.list_id]

\* the messages the id denotes on the provider now
Denoted(id) == {inbox[i] : i \in {j \in 1..Len(inbox) : MsgId(j) = id}}

-----------------------------------------------------------------------------
(* EmailProcessor *)

\* a processed check that never finds the id
is_processed_never(email_id) == FALSE

is_processed(email_id) == email_id \in processed_emails

\* a mark_as_processed that forgets the ids recorded before
mark_as_processed_only(email_id) == {email_id}

\* the set after self.processed_emails.add(email_id)
mark_as_processed(email_id) == processed_emails \cup {email_id}

-----------------------------------------------------------------------------------------------------------------------------------------------------------------------------------------------------------------------------
(* fetch_latest_unread_email: what it returns (data), the processed set and *)
(* the provider's unread set it leaves, and the path it took.  o is what    *)
(* the provider does: "list_error" fails the listing (list / select /       *)
(* search), "get_error" fails the retrieval of the message (get / fetch),   *)
(* "decode_error" delivers a message whose decoding raises.                  *)

\* The unread set after the message at position i was retrieved: IMAP's
\* FETCH (RFC822) on the mailbox select() opened read-write sets \Seen,
\* Gmail's messages().get leaves the labels alone.
Retrieved(i) ==
  IF email_type = "imap" THEN unread \ {inbox[i]} ELSE unread

fetch_latest_unread_email(o) ==
  LET None(kind, procd, unrd) ==
        [data |-> <<>>, processed |-> procd, unread |-> unrd, outcome |-> kind]
  IN
  IF o = "list_error" THEN None("fetch_error", processed_emails, unread)
  ELSE IF UnreadPositions = {} THEN None("nowork", processed_emails, unread)
  ELSE IF is_processed(MsgId(TopPos))
       THEN None("nowork", processed_emails, unread)
  ELSE IF o = "get_error" THEN None("fetch_error", processed_emails, unread)
  ELSE IF o = "decode_error"
       THEN None("fetch_error", processed_emails, Retrieved(TopPos))
  ELSE IF should_process_email(EmailRecord(TopPos))
       THEN [data |-> <<EmailRecord(TopPos)>>, processed |-> processed_emails,
             unread |-> Retrieved(TopPos), outcome |-> "eligible"]
       ELSE None("filtered", mark_as_processed(MsgId(TopPos)),
                 Retrieved(TopPos))

-----
(* send_reply: its return value and the provider and processor state it leaves *)

ReplyMessage(ed, text) ==
  [from |-> email_address,
   to |-> ed.sender,
   subject |-> RePrefix \o ed.subject,
   in_reply_to |-> ed.id,
   references |-> ed.threadId,
   text |-> text]

\* a send_reply that does not record the id
send_reply_unmarked(ed, text, so, mo) ==
  IF so = "raise" \/ mo = "raise"
  THEN [ok |-> FALSE,
        outbox |-> IF so = "raise" THEN outbox
                   ELSE Append(outbox, ReplyMessage(ed, text)),
        unread |-> unread, processed |-> processed_emails]
  ELSE [ok |-> TRUE, outbox |-> Append(outbox, ReplyMessage(ed, text)),
        unread |-> IF mo = "ok" THEN unread \ Denoted(ed.id) ELSE unread,
        processed |-> processed_emails]

\* a send_reply that records the id before it sends
send_reply_eager(ed, text, so, mo) ==
  IF so = "raise"
  THEN [ok |-> FALSE, outbox |-> outbox, unread |-> unread,
        processed |-> mark_as_processed(ed.id)]
  ELSE IF mo = "raise"
  THEN [ok |-> FALSE, outbox |-> Append(outbox, ReplyMessage(ed, text)),
        unread |-> unread, processed |-> mark_as_processed(ed.id)]
  ELSE [ok |-> TRUE, outbox |-> Append(outbox, ReplyMessage(ed, text)),
        unread |-> IF mo = "ok" THEN unread \ Denoted(ed.id) ELSE unread,
        processed |-> mark_as_processed(ed.id)]

send_reply(ed, text, so, mo) ==
  IF so = "raise"
  THEN [ok |-> FALSE, outbox |-> outbox, unread |-> unread,
        processed |-> processed_emails]
  ELSE IF mo = "raise"
  THEN [ok |-> FALSE, outbox |-> Append(outbox, ReplyMessage(ed, text)),
        unread |-> unread, processed |-> processed_emails]
  ELSE [ok |-> TRUE, outbox |-> Append(outbox, ReplyMessage(ed, text)),
        unread |-> IF mo = "ok" THEN unread \ Denoted(ed.id) ELSE unread,
        processed |-> mark_as_processed(ed.id)]

-----------------------------------------------------------------------------
(* EmailAssistant *)

\* a generate_reply without the fallback text
generate_reply_raw(ed, llm) == IF llm = <<>> THEN <<>> ELSE llm[1]

\* response.text, or the fallback text when the model call raises
generate_reply(ed, llm) == IF llm = <<>> THEN FallbackReply ELSE llm[1]

generate_summary(ed, text, llm) ==
  IF llm = <<>> THEN SummaryPrefix \o ed.subject ELSE llm[1]

-----------------------------------------------------------------------------
(* CsvLogger.log_interaction, GoogleSheetsLogger.log_interaction *)

\* a snippet cut without the dots
Snippet_cut(s) == IF Len(s) > SnippetLen THEN SubSeq(s, 1, SnippetLen) ELSE s

\* s[:200] + "..." if len(s) > 200 else s
Snippet(s) ==
  IF Len(s) > SnippetLen THEN SubSeq(s, 1, SnippetLen) \o Dots ELSE s

\* the wall clock of datetime.now() is read as the number of the cycle
LogRow(ed, text, sum) ==
  [timestamp |-> cycle,
   sender |-> ed.sender,
   recipient |-> ed.recipient,
   subject |-> ed.subject,
   original_snippet |-> Snippet(ed.body),
   reply_snippet |-> Snippet(text),
   summary |-> sum]

log_interaction(ed, text, sum, wo) ==
  IF wo = "raise" THEN [ok |-> FALSE, log |-> log]
  ELSE [ok |-> TRUE, log |-> Append(log, LogRow(ed, text, sum))]

-----------------------------------------------------------------------------
(* EmailAutomationAgent *)

\* a process_single_email that returns what log_interaction returned
process_single_email_result_logged(logged) == logged

\* process_single_email after log_interaction returned: the return value is
\* not looked at
process_single_email_result(logged) == TRUE

\* a run_once without the except clause
run_once_uncaught(raised, value) == [propagates |-> raised, result |-> value]

\* run_once: raised says that process_single_email raised an Exception,
\* value is what it returned otherwise
run_once(raised, value) ==
  [propagates |-> FALSE, result |-> IF raised THEN FALSE ELSE value]

\* where run() continues after run_once()
AfterRunOnce(r) == IF r.propagates THEN "finally" ELSE "returned"

\* What can go wrong while EmailAutomationAgent(config) is constructed:
\* "processor_error" is the processor's constructor raising before a mailbox
\* connection exists (Gmail credentials, IMAP4_SSL or its login), "smtp_error"
\* is connect_to_servers raising at the SMTP connection, after the IMAP login,
\* "assistant_error" and "logger_error" are EmailAssistant(config) and the
\* logger's constructor or the unsupported logging type raising.
SetupOutcomes(type) ==
  {"ok", "processor_error", "assistant_error", "logger_error"}
    \cup (IF type = "imap" THEN {"smtp_error"} ELSE {})

\* setup_components: whether the mailbox connection is open when it ends, and
\* whether it ended without raising, so that agent.run() is called
setup_components(o) ==
  [connected |-> (email_type = "imap" /\ o # "processor_error"),
   started |-> (o = "ok")]

\* --interval: type=int, default 300; argparse takes a negative number too
DefaultInterval == 300

Intervals == {-1, DefaultInterval}

\* time.sleep(secs) raises ValueError for a negative length
sleep_raises(secs) == secs < 0

\* the finally clause of run(): hasattr(self.email_processor, 'disconnect')
has_disconnect == email_type = "imap"

-----------------------------------------------------------------------------------------------------------------------------------------------------
(* Initial state: the arguments are parsed, the agent is not constructed *)

NoBefore == [processed |-> {}, log |-> 0, outbox |-> 0]

Init ==
  /\ email_type \in {"gmail", "imap"}
  /\ single_run \in BOOLEAN
  /\ interval_seconds \in Intervals
  /\ inbox = <<>>
  /\ unread = {}
  /\ expunged = {}
  /\ outbox = <<>>
  /\ connected = FALSE
  /\ processed_emails = {}
  /\ log = <<>>
  /\ pc = "init"
  /\ cycle = 0
  /\ email_data = <<>>
  /\ reply_text = <<>>
  /\ summary = <<>>
  /\ result = <<>>
  /\ unhandled = FALSE
  /\ calls = <<>>
  /\ outcome = "none"
  /\ seen = <<>>
  /\ sent = <<>>
  /\ log_ok = <<>>
  /\ before = NoBefore
  /\ sendOk = {}
  /\ pending = {}
  /\ rejected = {}
  /\ disconnects = 0
  /\ gen_failed = {}
  /\ quiet = {}
  /\ verdict = <<>>
  /\ replied = {}
  /\ rejectedIds = {}

-----------------------------------------------------------------------------
(* The provider's side.  What other clients do to the mailbox while a cycle  *)
(* runs reaches the processor with its next fetch, so these steps are taken  *)
(* between cycles.                                                            *)

BetweenCycles == pc \in {"run", "sleep"}

InInbox(m) == \E i \in 1..Len(inbox) : inbox[i] = m

\* a new message arrives
Arrive(m) ==
  /\ BetweenCycles
  /\ ~InInbox(m) /\ m \notin expunged
  /\ inbox' = Append(inbox, m)
  /\ unread' = unread \cup {m}
  /\ UNCHANGED <<confVars, auxVars, expunged, outbox, agentVars, cycleVars, histVars>>

\* the user reads a message in another client
ExternalRead(m) ==
  /\ BetweenCycles
  /\ m \in unread
  /\ unread' = unread \ {m}
  /\ UNCHANGED <<confVars, auxVars, inbox, expunged, outbox, agentVars, cycleVars,
                 histVars>>

\* the user marks a message unread again in another client
ExternalUnread(m) ==
  /\ BetweenCycles
  /\ InInbox(m) /\ m \notin unread
  /\ unread' = unread \cup {m}
  /\ UNCHANGED <<confVars, auxVars, inbox, expunged, outbox, agentVars, cycleVars,
                 histVars>>

\* a message is deleted and expunged; the IMAP sequence numbers above it shift
Expunge(m) ==
  /\ BetweenCycles
  /\ InInbox(m)
  /\ inbox' = SelectSeq(inbox, LAMBDA x : x # m)
  /\ unread' = unread \ {m}
  /\ expunged' = expunged \cup {m}
  /\ UNCHANGED <<confVars, auxVars, outbox, agentVars, cycleVars, histVars>>

\* a reply the provider accepted is delivered: addressed to the own address,
\* it arrives in the own inbox as a new unread message
ReplyArrives ==
  /\ BetweenCycles
  /\ ~InInbox("r") /\ "r" \notin expunged
  /\ \E k \in DOMAIN outbox :
       /\ Contains(outbox[k].to, email_address)
       /\ outbox[k].from = OwnReply.from_addr
       /\ outbox[k].subject = OwnReply.subject
       /\ outbox[k].text = OwnReply.body
  /\ inbox' = Append(inbox, "r")
  /\ unread' = unread \cup {"r"}
  /\ UNCHANGED <<confVars, auxVars, expunged, outbox, agentVars, cycleVars,
                 histVars>>

-----------------------------------------------------------------------------
(* run(), run_once(), process_single_email() *)

\* __main__: EmailAutomationAgent(args.config); an Exception of the
\* construction is reported and the process exits with status 1
SetupComponents ==
  /\ pc = "init"
  /\ \E o \in SetupOutcomes(email_type) :
       LET r == setup_components(o) IN
       /\ connected' = r.connected
       /\ pc' = IF r.started THEN "run" ELSE "exit"
  /\ UNCHANGED <<confVars, auxVars, provVars, processed_emails, log, cycle,
                 unhandled, cycleVars, histVars>>

\* a cycle begins: self.run_once() is called
BeginCycle ==
  /\ cycle < MaxCycles
  /\ cycle' = cycle + 1
  /\ pc' = "fetch"
  /\ before' = [processed |-> processed_emails, log |-> Len(log),
                outbox |-> Len(outbox)]
  /\ UNCHANGED <<confVars, auxVars, provVars, connected, processed_emails, log,
                 unhandled, localVars, result, calls, outcome, seen, sent,
                 log_ok, histVars>>

\* run(): the first cycle, of a single run or of the loop
RunStart ==
  /\ pc = "run"
  /\ BeginCycle

\* run(): time.sleep(interval_seconds) returns and the loop goes round
Sleep ==
  /\ pc = "sleep"
  /\ ~sleep_raises(interval_seconds)
  /\ BeginCycle

\* run(): time.sleep(interval_seconds) raises; it is an Exception, so the
\* handler of run() logs "Unhandled error in main loop" and the loop is left
SleepRaises ==
  /\ pc = "sleep"
  /\ sleep_raises(interval_seconds)
  /\ unhandled' = TRUE
  /\ pc' = "finally"
  /\ UNCHANGED <<confVars, auxVars, provVars, connected, processed_emails, log,
                 cycle, cycleVars, histVars>>

\* run(): run_once() has returned; a single run ends, the loop logs and sleeps.
\* The locals of the cycle are gone.
Continue ==
  /\ pc = "returned"
  /\ pc' = IF single_run THEN "finally" ELSE "sleep"
  /\ email_data' = <<>>
  /\ reply_text' = <<>>
  /\ summary' = <<>>
  /\ result' = <<>>
  /\ calls' = <<>>
  /\ outcome' = "none"
  /\ seen' = <<>>
  /\ sent' = <<>>
  /\ log_ok' = <<>>
  /\ before' = NoBefore
  /\ gen_failed' = {}
  /\ UNCHANGED <<confVars, provVars, connected, processed_emails, log, cycle,
                 unhandled, histVars, disconnects, quiet, verdict>>

\* a process_single_email that calls send_reply again after a failed send
Return_retry(raised, value, kind) ==
  IF kind = "send_failed" /\ Len(calls) < 3
  THEN /\ pc' = "send"
       /\ UNCHANGED <<result, unhandled, outcome>>
  ELSE LET r == run_once(raised, value) IN
       /\ result' = IF r.propagates THEN <<>> ELSE <<r.result>>
       /\ unhandled' = (unhandled \/ r.propagates)
       /\ outcome' = kind
       /\ pc' = AfterRunOnce(r)

\* process_single_email ends, by return or by raising, and run_once returns
Return(raised, value, kind) ==
  LET r == run_once(raised, value) IN
  /\ result' = IF r.propagates THEN <<>> ELSE <<r.result>>
  /\ unhandled' = (unhandled \/ r.propagates)
  /\ outcome' = kind
  /\ pc' = AfterRunOnce(r)

\* the provider's latest unread message at this moment, with its history
LatestUnread ==
  LET ps == {i \in 1..Len(inbox) : inbox[i] \in unread} IN
  IF ps = {} THEN <<>>
  ELSE LET i == CHOOSE k \in ps : \A j \in ps : j <= k IN
       << [id |-> MsgId(i), msg |-> inbox[i],
           replied |-> MsgId(i) \in sendOk,
           pending |-> inbox[i] \in pending,
           rejected |-> inbox[i] \in rejected] >>

\* `if not email_data` of process_single_email
NoEmail(data) == data = <<>>

Fetch ==
  /\ pc = "fetch"
  /\ \E o \in FetchOutcomes :
       LET r == fetch_latest_unread_email(o) IN
       /\ processed_emails' = r.processed
       /\ unread' = r.unread
       /\ rejected' = IF r.outcome = "filtered"
                      THEN rejected \cup {inbox[TopPos]} ELSE rejected
       /\ rejectedIds' = IF r.outcome = "filtered"
                         THEN rejectedIds \cup {MsgId(TopPos)} ELSE rejectedIds
       /\ email_data' = r.data
       /\ IF NoEmail(r.data)
          THEN /\ Return(FALSE, FALSE, r.outcome)
               /\ quiet' = IF r.outcome \in {"nowork", "filtered"}
                           THEN quiet \cup {run_once(FALSE, FALSE).result}
                           ELSE quiet
          ELSE /\ pc' = "generate"
               /\ outcome' = "eligible"
               /\ UNCHANGED <<result, unhandled, quiet>>
  /\ calls' = Append(calls, "fetch")
  /\ seen' = LatestUnread
  /\ UNCHANGED <<confVars, inbox, expunged, outbox, connected, log, cycle,
                 reply_text, summary, sent, log_ok, before, sendOk, pending,
                 replied, disconnects, gen_failed, verdict>>

GenerateReply ==
  /\ pc = "generate"
  /\ \E llm \in LlmReplyOutcomes :
       /\ reply_text' = <<generate_reply(email_data[1], llm)>>
       /\ gen_failed' = IF llm = <<>> THEN gen_failed \cup {"generate_reply"}
                        ELSE gen_failed
  /\ calls' = Append(calls, "generate_reply")
  /\ pc' = "send"
  /\ UNCHANGED <<confVars, provVars, connected, processed_emails, log, cycle,
                 email_data, summary, result, unhandled, outcome, seen, sent,
                 log_ok, before, histVars, disconnects, quiet, verdict>>

SendReply ==
  /\ pc = "send"
  /\ \E so \in SendOutcomes, mo \in MarkOutcomes(email_type) :
       LET r == send_reply(email_data[1], reply_text[1], so, mo)
           msgs == Denoted(email_data[1].id)
       IN
       /\ outbox' = r.outbox
       /\ unread' = r.unread
       /\ processed_emails' = r.processed
       /\ sent' = << [accepted |-> so = "ok",
                      mark |-> IF so = "ok" THEN mo ELSE "none",
                      ok |-> r.ok] >>
       /\ sendOk' = IF r.ok THEN sendOk \cup {email_data[1].id} ELSE sendOk
       /\ pending' = IF r.ok THEN pending \ msgs ELSE pending \cup msgs
       /\ replied' = IF r.ok THEN replied \cup msgs ELSE replied
       /\ IF r.ok
          THEN /\ pc' = "summary"
               /\ UNCHANGED <<result, unhandled, outcome>>
          ELSE Return(FALSE, FALSE, "send_failed")
  /\ calls' = Append(calls, "send_reply")
  /\ UNCHANGED <<confVars, auxVars, inbox, expunged, connected, log, cycle, localVars,
                 seen, log_ok, before, rejected, rejectedIds>>

GenerateSummary ==
  /\ pc = "summary"
  /\ \E llm \in LlmSummaryOutcomes :
       /\ summary' = <<generate_summary(email_data[1], reply_text[1], llm)>>
       /\ gen_failed' = IF llm = <<>> THEN gen_failed \cup {"generate_summary"}
                        ELSE gen_failed
  /\ calls' = Append(calls, "generate_summary")
  /\ pc' = "log"
  /\ UNCHANGED <<confVars, provVars, connected, processed_emails, log, cycle,
                 email_data, reply_text, result, unhandled, outcome, seen, sent,
                 log_ok, before, histVars, disconnects, quiet, verdict>>

LogInteraction ==
  /\ pc = "log"
  /\ \E wo \in WriteOutcomes :
       LET r == log_interaction(email_data[1], reply_text[1], summary[1], wo) IN
       /\ log' = r.log
       /\ log_ok' = <<r.ok>>
       /\ Return(FALSE, process_single_email_result(r.ok), "processed")
  /\ calls' = Append(calls, "log_interaction")
  /\ UNCHANGED <<confVars, auxVars, provVars, connected, processed_emails, cycle,
                 localVars, seen, sent, before, histVars>>

\* an Exception leaves process_single_email: raised by one of its own
\* statements or let through by a collaborator
CycleRaises ==
  /\ pc \in CyclePcs
  /\ Return(TRUE, FALSE, "exception")
  /\ UNCHANGED <<confVars, auxVars, provVars, connected, processed_emails, log, cycle,
                 localVars, calls, seen, sent, log_ok, before, histVars>>

\* KeyboardInterrupt: it is no Exception, so run_once lets it through and
\* run() handles it
Interrupt ==
  /\ pc \in {"run", "sleep", "returned"} \cup CyclePcs
  /\ pc' = "finally"
  /\ outcome' = IF pc \in CyclePcs THEN "interrupted" ELSE outcome
  /\ UNCHANGED <<confVars, auxVars, provVars, connected, processed_emails, log, cycle,
                 localVars, result, unhandled, calls, seen, sent, log_ok,
                 before, histVars>>

\* run(): the finally clause; only ImapProcessor has disconnect
Finally ==
  /\ pc = "finally"
  /\ connected' = IF has_disconnect THEN FALSE ELSE connected
  /\ disconnects' = IF has_disconnect THEN disconnects + 1 ELSE disconnects
  /\ pc' = "done"
  /\ UNCHANGED <<confVars, provVars, processed_emails, log, cycle, localVars,
                 result, unhandled, calls, outcome, seen, sent, log_ok, before,
                 histVars, gen_failed, quiet, verdict>>

Next ==
  \/ SetupComponents
  \/ \E m \in Msgs : Arrive(m)
  \/ \E m \in Msgs : ExternalRead(m)
  \/ \E m \in Msgs : ExternalUnread(m)
  \/ \E m \in Msgs : Expunge(m)
  \/ RunStart
  \/ Sleep
  \/ SleepRaises
  \/ Continue
  \/ Fetch
  \/ GenerateReply
  \/ SendReply
  \/ GenerateSummary
  \/ LogInteraction
  \/ CycleRaises
  \/ Interrupt
  \/ Finally

Spec == Init /\ [][Next]_vars

\* the agent on a mailbox that receives the owner's own mail and the agent's
\* own replies
LoopNext ==
  \/ SetupComponents
  \/ Arrive("c")
  \/ ReplyArrives
  \/ \E m \in LoopMsgs : ExternalRead(m)
  \/ \E m \in LoopMsgs : ExternalUnread(m)
  \/ \E m \in LoopMsgs : Expunge(m)
  \/ RunStart
  \/ Sleep
  \/ SleepRaises
  \/ Continue
  \/ Fetch
  \/ GenerateReply
  \/ SendReply
  \/ GenerateSummary
  \/ LogInteraction
  \/ CycleRaises
  \/ Interrupt
  \/ Finally

LoopSpec == Init /\ [][LoopNext]_vars

-----------------------------------------------------------------------------
(* should_process_email on its own: the filter applied to one email record   *)
(* drawn from senders, subjects and List-Id values that meet every rule in   *)
(* several letter cases                                                       *)

OtherHost == <<"@", "x", ".", "i", "o">>

FilterSenders ==
  { <<"b", "o", "s", "s">> \o OtherHost,
    email_address,
    <<"I", " ", "<">> \o email_address \o <<">">>,
    <<"M", "E", "@", "C", "O", ".", "C", "O", "M">>,
    <<"n", "o", "r", "e", "p", "l", "y">> \o OtherHost,
    <<"N", "o", "-", "R", "e", "p", "l", "y">> \o OtherHost,
    <<"N", "O", "R", "E", "P", "L", "Y", " ">> \o email_address,
    <<"n", "o", " ", "r", "e", "p", "l", "y">> \o OtherHost }

FilterSubjects ==
  { <<>>,
    <<"h", "i">>,
    <<"R", "e", ":", " ", "h", "i">>,
    <<"r", "e", ":">>,
    <<"F", "W", "D", ":", "x">>,
    <<"f", "w", "d", ":", " ", "x">>,
    <<"h", "i", " ", "r", "e", ":">>,
    <<"R", "e", " ", "x">>,
    <<"N", "O", "-", "A", "U", "T", "O">>,
    <<"n", "o", "-", "a", "u", "t", "o", "-", "r", "e", "p", "l", "y">>,
    <<"R", "E", ":", " ", "H", "u", "m", "a", "n", "-", "O", "n", "l", "y">>,
    <<"h", "u", "m", "a", "n", " ", "o", "n", "l", "y">> }

\* the List-Id header: absent, present and empty, present with a value
FilterListIds == { <<>>, << <<>> >>, << <<"l", ".", "x">> >> }

FilterRecord(s, j, l) ==
  [id |-> 11, threadId |-> 21, sender |-> s, recipient |-> email_address,
   subject |-> j, body |-> <<>>, date |-> <<>>, list_id |-> l]

FilterInit ==
  /\ email_type = "gmail"
  /\ single_run = TRUE
  /\ interval_seconds = DefaultInterval
  /\ inbox = <<>>
  /\ unread = {}
  /\ expunged = {}
  /\ outbox = <<>>
  /\ connected = FALSE
  /\ processed_emails \in {{}, {12}}
  /\ log = <<>>
  /\ pc = "filter"
  /\ cycle = 0
  /\ email_data \in { <<FilterRecord(s, j, l)>> :
                         s \in FilterSenders, j \in FilterSubjects,
                         l \in FilterListIds }
  /\ reply_text = <<>>
  /\ summary = <<>>
  /\ result = <<>>
  /\ unhandled = FALSE
  /\ calls = <<>>
  /\ outcome = "none"
  /\ seen = <<>>
  /\ sent = <<>>
  /\ log_ok = <<>>
  /\ before = [processed |-> processed_emails, log |-> 0, outbox |-> 0]
  /\ sendOk = {}
  /\ pending = {}
  /\ rejected = {}
  /\ disconnects = 0
  /\ gen_failed = {}
  /\ quiet = {}
  /\ verdict = <<>>
  /\ replied = {}
  /\ rejectedIds = {}

\* self.should_process_email(email_data) is called and returns
Evaluate ==
  /\ pc = "filter"
  /\ verdict' = <<should_process_email(email_data[1])>>
  /\ pc' = "filtered"
  /\ UNCHANGED <<confVars, provVars, connected, processed_emails, log, cycle,
                 unhandled, cycleVars, histVars, disconnects, gen_failed,
                 quiet>>

FilterNext == Evaluate

FilterSpec == FilterInit /\ [][FilterNext]_vars

-----------------------------------------------------------------------------
(* Properties *)

Called(c) == \E i \in DOMAIN calls : calls[i] = c

CallOrder ==
  <<"fetch", "generate_reply", "send_reply", "generate_summary",
    "log_interaction">>

\* C1: Idempotence after success.  In a cycle whose fetch finds, as the latest
\* unread message, an id for which send_reply returned True in an earlier
\* cycle, neither generate_reply nor send_reply is called and nothing is sent:
\* the cycle ends at the processed check (or at a failed listing).
C1_IdempotenceAfterSuccess ==
  (seen # <<>> /\ seen[1].replied) =>
    /\ ~Called("generate_reply") /\ ~Called("send_reply")
    /\ pc \notin {"generate", "send", "summary", "log"}
    /\ Len(outbox) = before.outbox
    /\ pc = "returned" => outcome \in {"nowork", "fetch_error"}

C1_Witness ==
  /\ pc = "returned" /\ outcome = "nowork"
  /\ seen # <<>> /\ seen[1].replied /\ calls = <<"fetch">>

\* C2: No duplicate reply under partial failure.  The provider accepts at most
\* one reply per email id.
C2_NoDuplicateReply ==
  \A i, j \in DOMAIN outbox :
    outbox[i].in_reply_to = outbox[j].in_reply_to => i = j

\* C3: Retry after send failure.  When send_reply returned False the id is not
\* in the processed set at the end of the cycle, and a later cycle that gets the
\* same message as the latest unread one calls send_reply for it.
C3_RetryAfterSendFailure ==
  pc = "returned" =>
    /\ outcome = "send_failed" => email_data[1].id \notin processed_emails
    /\ (seen # <<>> /\ seen[1].pending
          /\ outcome \notin {"fetch_error", "exception"})
         => Called("send_reply")

\* C4: Mark-read is best-effort.  When the provider accepted the reply and the
\* mark-as-read request failed, the cycle goes on to summary and log, returns
\* success, and the id is in the processed set.
C4_MarkReadBestEffort ==
  (pc = "returned" /\ outcome # "exception" /\ sent # <<>>
     /\ sent[1].accepted /\ sent[1].mark \in {"no", "raise"})
    => /\ result = <<TRUE>>
       /\ Called("generate_summary") /\ Called("log_interaction")
       /\ email_data[1].id \in processed_emails

\* C5: Log failure does not undo success.  When log_interaction returned False
\* (after send_reply returned True), the cycle returns True and the id is in
\* the processed set.
C5_LogFailureKeepsSuccess ==
  (pc = "returned" /\ log_ok = <<FALSE>>) =>
    /\ result = <<TRUE>>
    /\ outcome = "processed"
    /\ sent # <<>> /\ sent[1].ok
    /\ email_data[1].id \in processed_emails

C5_Witness ==
  /\ pc = "returned" /\ log_ok = <<FALSE>>
  /\ sent # <<>> /\ sent[1].ok /\ Called("log_interaction")

\* C6: Filter rejection.  A cycle whose email the filter rejects only fetches
\* and records the id; a later cycle that sees a message rejected before, still
\* unread, ends as no-work without evaluating the filter again.
C6_FilterRejection ==
  pc = "returned" =>
    /\ outcome = "filtered" =>
         /\ calls = <<"fetch">>
         /\ seen[1].id \in processed_emails
         /\ Len(outbox) = before.outbox /\ Len(log) = before.log
    /\ (seen # <<>> /\ seen[1].rejected
          /\ outcome \notin {"fetch_error", "exception"})
         => (outcome = "nowork" /\ calls = <<"fetch">>)

\* C7: A no-work cycle has no effects.  When the provider holds no unread
\* message at the fetch, the cycle returns False after the fetch alone, and
\* the processed set, the outbox and the log are as the cycle found them.
C7_NoWorkNoEffects ==
  (pc = "returned" /\ Called("fetch") /\ seen = <<>>) =>
    /\ result = <<FALSE>>
    /\ outcome \in {"nowork", "fetch_error"}
    /\ calls = <<"fetch">>
    /\ email_data = <<>> /\ reply_text = <<>> /\ summary = <<>>
    /\ processed_emails = before.processed
    /\ Len(outbox) = before.outbox
    /\ Len(log) = before.log

C7_Witness ==
  /\ pc = "returned" /\ calls = <<"fetch">> /\ seen = <<>>
  /\ outcome = "nowork"
  /\ Len(inbox) > 0 /\ processed_emails # {}

\* C8: Step ordering.  The calls of a cycle are a prefix of fetch,
\* generate_reply, send_reply, generate_summary, log_interaction; when
\* generate_summary or log_interaction is about to be called or has been
\* called, send_reply has returned True in this cycle and the id is in the
\* processed set.
C8_StepOrdering ==
  /\ \E n \in 0..Len(CallOrder) : calls = SubSeq(CallOrder, 1, n)
  /\ (pc \in {"summary", "log"} \/ Called("generate_summary")
        \/ Called("log_interaction"))
       => /\ Called("send_reply")
          /\ sent # <<>> /\ sent[1].ok
          /\ email_data[1].id \in processed_emails

C8_Witness == pc = "returned" /\ calls = CallOrder

\* what the log row of a cycle must be, given the text its reply carries
C9_Rows(carried) ==
  pc = "returned" =>
    IF outcome = "processed" /\ log_ok = <<TRUE>>
    THEN /\ Len(log) = before.log + 1
         /\ Len(outbox) = before.outbox + 1
         /\ outbox[Len(outbox)].text = reply_text[1]
         /\ log[Len(log)].sender = email_data[1].sender
         /\ log[Len(log)].subject = email_data[1].subject
         /\ log[Len(log)].summary = summary[1]
         /\ log[Len(log)].reply_snippet = carried
    ELSE Len(log) = before.log

\* C9 as claimed: One log entry per processed email.  A cycle that ends as
\* processed with a working log appends exactly one row, and the row carries
\* the reply text that was generated and sent; every other cycle appends none.
C9_OneLogEntry == C9_Rows(IF reply_text = <<>> THEN <<>> ELSE reply_text[1])

\* C9 as amended: the row carries the reply text when that is at most 200
\* characters long, and otherwise its first 200 characters followed by "...".
C9_OneLogEntrySnippet ==
  C9_Rows(IF reply_text = <<>> THEN <<>>
          ELSE IF Len(reply_text[1]) <= SnippetLen THEN reply_text[1]
          ELSE SubSeq(reply_text[1], 1, SnippetLen) \o Dots)

C9_Witness ==
  /\ pc = "returned" /\ outcome = "processed" /\ log_ok = <<TRUE>>
  /\ Len(reply_text[1]) > SnippetLen
  /\ Len(log) = before.log + 1

C11_FailureDistinguishable ==
  (pc = "returned" /\ outcome \in {"fetch_error", "send_failed"})
    => result[1] \notin quiet

\* C12: Generator failure is masked.  When the model call of generate_reply or
\* generate_summary raises, the call returns its fallback text; the cycle goes
\* on to send_reply, and when send_reply returns True the fallback reply is
\* the one sent and the cycle ends as processed with the result True.
C12_GeneratorFailureMasked ==
  /\ "generate_reply" \in gen_failed => reply_text = <<FallbackReply>>
  /\ "generate_summary" \in gen_failed
       => summary = <<SummaryPrefix \o email_data[1].subject>>
  /\ (pc = "returned" /\ gen_failed # {} /\ outcome # "exception") =>
       /\ Called("send_reply") /\ sent # <<>>
       /\ IF sent[1].ok
          THEN /\ outcome = "processed" /\ result = <<TRUE>>
               /\ Len(outbox) = before.outbox + 1
               /\ outbox[Len(outbox)].text = reply_text[1]
               /\ Called("log_interaction")
          ELSE /\ outcome = "send_failed"
               /\ gen_failed = {"generate_reply"}

C12_Witness ==
  /\ pc = "returned" /\ outcome = "processed" /\ result = <<TRUE>>
  /\ gen_failed = {"generate_reply", "generate_summary"}
  /\ outbox[Len(outbox)].text = FallbackReply

\* C13: Scoped disconnect.  When the process has ended, by the end of run() or
\* by the exit after a failed start, and a mailbox connection had been opened,
\* disconnect has been called exactly once.
C13_ScopedDisconnect ==
  (pc \in {"done", "exit"} /\ (connected \/ disconnects > 0))
    => disconnects = 1

\* C14: Fetch does not change read state.  No fetch_latest_unread_email
\* changes which messages are unread on the provider, and the email of a cycle
\* whose send failed is still unread when the cycle ends.
C14_FetchKeepsReadState ==
  /\ [][calls' = Append(calls, "fetch") => unread' = unread]_vars
  /\ []((pc = "returned" /\ outcome = "send_failed")
          => Denoted(email_data[1].id) \subseteq unread)

\* the words of the filter rules: k occurs in s, or starts s, in any letter case
InAnyCase(s, k) ==
  \E i \in 0..(Len(s) - Len(k)) : \A j \in 1..Len(k) : LowerChar(s[i + j]) = k[j]

PrefixAnyCase(s, k) ==
  Len(s) >= Len(k) /\ \A j \in 1..Len(k) : LowerChar(s[j]) = k[j]

NoReplySender(ed) ==
  \/ InAnyCase(ed.sender, <<"n", "o", "r", "e", "p", "l", "y">>)
  \/ InAnyCase(ed.sender, <<"n", "o", "-", "r", "e", "p", "l", "y">>)

ReplyOrForward(ed) ==
  \/ PrefixAnyCase(ed.subject, <<"r", "e", ":">>)
  \/ PrefixAnyCase(ed.subject, <<"f", "w", "d", ":">>)

FromOwnAddress(ed) ==
  \E i \in 0..(Len(ed.sender) - Len(email_address)) :
    \A j \in 1..Len(email_address) : ed.sender[i + j] = email_address[j]

ListTraffic(ed) == ed.list_id # <<>> /\ Len(ed.list_id[1]) > 0

OptOutSubject(ed) ==
  \/ InAnyCase(ed.subject,
               <<"n", "o", "-", "a", "u", "t", "o", "-", "r", "e", "p", "l", "y">>)
  \/ InAnyCase(ed.subject, <<"n", "o", "-", "a", "u", "t", "o">>)
  \/ InAnyCase(ed.subject, <<"h", "u", "m", "a", "n", "-", "o", "n", "l", "y">>)

\* C15: Reply-loop rule.  An email whose subject starts with "re:" or "fwd:"
\* in any case and whose sender contains the own address is rejected; with a
\* sender that does not contain the own address it is accepted when the sender
\* has no no-reply mark, list_id is absent or empty and the subject has no
\* opt-out keyword.
C15_ReplyLoopRule ==
  (verdict # <<>> /\ ReplyOrForward(email_data[1])) =>
    LET ed == email_data[1] IN
    /\ FromOwnAddress(ed) => verdict = <<FALSE>>
    /\ (~FromOwnAddress(ed) /\ ~NoReplySender(ed) /\ ~ListTraffic(ed)
          /\ ~OptOutSubject(ed)) => verdict = <<TRUE>>

C15_Witness ==
  /\ verdict = <<FALSE>> /\ ReplyOrForward(email_data[1])
  /\ FromOwnAddress(email_data[1]) /\ ~NoReplySender(email_data[1])
  /\ ~ListTraffic(email_data[1]) /\ ~OptOutSubject(email_data[1])
  /\ email_data[1].subject[1] = "F"

\* C16: No-reply rule.  An email whose sender contains "noreply" or "no-reply"
\* in any letter case is rejected, whatever its subject and list_id are and
\* whether or not the sender contains the own address.
C16_NoReplyRule ==
  (verdict # <<>> /\ NoReplySender(email_data[1])) => verdict = <<FALSE>>

C16_Witness ==
  /\ verdict = <<FALSE>> /\ NoReplySender(email_data[1])
  /\ email_data[1].sender[1] = "N"
  /\ ~ReplyOrForward(email_data[1]) /\ ~ListTraffic(email_data[1])
  /\ ~OptOutSubject(email_data[1])

\* C17: Mailing-list rule.  An email with a present, non-empty list_id is
\* rejected; an email that no other rule rejects is accepted when its list_id
\* is absent and when it is empty.
C17_MailingListRule ==
  verdict # <<>> =>
    LET ed == email_data[1] IN
    /\ ListTraffic(ed) => verdict = <<FALSE>>
    /\ (~ListTraffic(ed) /\ ~NoReplySender(ed) /\ ~OptOutSubject(ed)
          /\ ~(ReplyOrForward(ed) /\ FromOwnAddress(ed))) => verdict = <<TRUE>>

C17_Witness ==
  /\ verdict = <<TRUE>> /\ email_data[1].list_id = << <<>> >>

\* C18: The filter equals the ordered rules.  should_process_email returns
\* False exactly when the no-reply rule, the reply-loop rule, the mailing-list
\* rule or the opt-out rule rejects, and True otherwise; the call leaves the
\* processed set, the mailbox, the outbox and the log as they were.
C18_FilterIsTheRules ==
  verdict # <<>> =>
    LET ed == email_data[1] IN
    /\ verdict = << ~(\/ NoReplySender(ed)
                      \/ (ReplyOrForward(ed) /\ FromOwnAddress(ed))
                      \/ ListTraffic(ed)
                      \/ OptOutSubject(ed)) >>
    /\ processed_emails = before.processed
    /\ outbox = <<>> /\ log = <<>> /\ unread = {} /\ calls = <<>>

C18_Witness ==
  /\ verdict = <<FALSE>> /\ processed_emails = {12}
  /\ OptOutSubject(email_data[1]) /\ ~NoReplySender(email_data[1])
  /\ ~ListTraffic(email_data[1]) /\ ~ReplyOrForward(email_data[1])

\* C19: The processed set is monotone.  It is empty when the processor has
\* been constructed and no step of the program removes an id from it.
C19_ProcessedMonotone ==
  /\ []((pc \in {"init", "run"} /\ cycle = 0) => processed_emails = {})
  /\ [][processed_emails \subseteq processed_emails']_vars

C19_Witness == Cardinality(processed_emails) = 2 /\ pc = "returned"

\* C20: At most one email per cycle.  A cycle calls send_reply at most once,
\* hands at most one reply to the provider and adds at most one id to the
\* processed set, the id of the one email its fetch looked at; after a failed
\* send the cycle has ended.
C20_OneEmailPerCycle ==
  pc \in CyclePcs \cup {"returned"} =>
    /\ Cardinality({i \in DOMAIN calls : calls[i] = "send_reply"}) <= 1
    /\ Cardinality({i \in DOMAIN calls : calls[i] = "fetch"}) <= 1
    /\ Len(outbox) <= before.outbox + 1
    /\ Cardinality(processed_emails \ before.processed) <= 1
    /\ \A id \in processed_emails \ before.processed :
         seen # <<>> /\ id = seen[1].id
    /\ email_data # <<>> => (seen # <<>> /\ email_data[1].id = seen[1].id)
    /\ (sent # <<>> /\ ~sent[1].ok) => pc = "returned"

C20_Witness ==
  /\ pc = "returned" /\ outcome = "send_failed" /\ cycle > 1
  /\ before.processed # {} /\ processed_emails = before.processed

\* the id the processor uses for message m of the inbox
IdOf(m) == MsgId(CHOOSE i \in 1..Len(inbox) : inbox[i] = m)

\* C21: Id stability of the idempotence key.  A message keeps its id for as
\* long as it is in the mailbox, and a cycle that ends at the processed check
\* has met a message this process replied to or filtered out before.
C21_StableIds ==
  /\ [][\A m \in Msgs : (InInbox(m) /\ InInbox(m)') => IdOf(m)' = IdOf(m)]_vars
  /\ []((pc = "returned" /\ outcome = "nowork" /\ seen # <<>>)
          => seen[1].msg \in replied \cup rejected)

\* C22: Continuous mode keeps cycling.  A cycle starts only when no other is
\* running, a single run has at most one cycle and ends after it, and in
\* continuous mode run() goes from the end of a cycle to its sleep and leaves
\* the loop by an interrupt only.
C22_KeepsCycling ==
  /\ [][cycle' # cycle
          => (pc \in {"run", "sleep"} /\ cycle' = cycle + 1 /\ pc' = "fetch")]_vars
  /\ [](single_run => cycle <= 1)
  /\ [][(single_run /\ pc = "returned") => pc' = "finally"]_vars
  /\ [][(~single_run /\ pc = "returned" /\ ~Interrupt) => pc' = "sleep"]_vars
  /\ [][(~single_run /\ pc # "finally" /\ pc' = "finally") => Interrupt]_vars

\* the text "Re: ", spelled as the subject of a reply shows it
ReText == <<"R", "e", ":", " ">>

\* C23: The agent never answers its own reply.  Every reply handed to the
\* provider has a subject starting with "Re: " and the own address as its
\* origin; a cycle that retrieves such a reply from the own inbox filters it
\* out and sends nothing, and no reply to a reply of the agent is ever sent.
C23_NoAnswerToOwnReply ==
  /\ \A k \in DOMAIN outbox :
       /\ Len(outbox[k].subject) >= 4
       /\ SubSeq(outbox[k].subject, 1, 4) = ReText
       /\ outbox[k].from = email_address
       /\ ~(Len(outbox[k].subject) >= 8
              /\ SubSeq(outbox[k].subject, 5, 8) = ReText)
  /\ (seen # <<>> /\ seen[1].msg = "r" /\ pc \in CyclePcs \cup {"returned"}) =>
       /\ pc \notin {"generate", "send", "summary", "log"}
       /\ ~Called("generate_reply") /\ ~Called("send_reply")
       /\ Len(outbox) = before.outbox
       /\ (pc = "returned" /\ outcome \notin {"nowork", "fetch_error"})
            => (outcome = "filtered" /\ "r" \in rejected)

C23_Witness ==
  /\ pc = "returned" /\ outcome = "filtered" /\ seen # <<>> /\ seen[1].msg = "r"
  /\ Len(outbox) > 0 /\ "r" \in rejected /\ calls = <<"fetch">>

\* the latest unread message has an id of the processed set
Blocked == LatestUnread # <<>> /\ LatestUnread[1].id \in processed_emails

\* a cycle whose fetch finds the latest unread message's id in the processed
\* set calls neither the generator nor send_reply and ends as no-work
BlockedCycleIsNoWork ==
  (pc \in CyclePcs \cup {"returned"} /\ seen # <<>>
     /\ seen[1].id \in before.processed) =>
    /\ ~Called("generate_reply") /\ ~Called("generate_summary")
    /\ ~Called("send_reply")
    /\ Len(outbox) = before.outbox
    /\ (pc = "returned" /\ outcome # "fetch_error") => outcome = "nowork"

\* C24: Head-of-line blocking by a handled email.  While the latest unread
\* message has an id of the processed set, every cycle ends as no-work without
\* the generator and send_reply; while that message stays unread, only the
\* arrival of a message or an external change of read state ends this.
C24_HeadOfLine ==
  /\ []BlockedCycleIsNoWork
  /\ [][(Blocked /\ ~Blocked' /\ LatestUnread[1].msg \in unread')
          => \E m \in Msgs :
               Arrive(m) \/ ExternalRead(m) \/ ExternalUnread(m)]_vars

\* C25: Processed-set membership is justified.  Every id of the processed set
\* is one that should_process_email rejected in a fetch or one for which
\* send_reply returned True, and the set changes only in a fetch that filters
\* its email out or in a send_reply that returns True.
C25_MembershipJustified ==
  /\ [](processed_emails \subseteq (sendOk \cup rejectedIds))
  /\ [][processed_emails' # processed_emails =>
          \/ (pc = "fetch" /\ outcome' = "filtered")
          \/ (pc = "send" /\ sent' # <<>> /\ sent'[1].ok)]_vars

C25_Witness ==
  /\ Cardinality(processed_emails) = 2
  /\ processed_emails \cap sendOk # {} /\ processed_emails \cap rejectedIds # {}
  /\ pc = "returned" /\ outcome = "processed"

====
